---- MODULE Spec2Model ----
(***************************************************************************)
(* Model of runEspnStats.py: the batch write coordinator of                *)
(* GoogleSheetsManager (add_data_to_batch, write_to_sheet, write_batch)    *)
(* and the get_and_write_* report operations that stage their rows through *)
(* it.                                                                     *)
(*                                                                         *)
(* Numbers are exact rationals [n, d] counted in hundredths of a point     *)
(* (d > 0, lowest terms); round(x, 2) is rounding of the exact value to a  *)
(* whole number of hundredths, ties to even; a string value is [str |-> s]. *)
(* A cell reference                                                        *)
(* f"{chr(ord('A') + c)}{row}" is the pair <<chr(ord_A + c), row>>, a      *)
(* range f"{sheet}!{cell}" the pair <<sheet, cell>>.                       *)
(***************************************************************************)
EXTENDS Integers, Sequences, FiniteSets, TLC

VARIABLES
    batch_data,     \* GoogleSheetsManager.batch_data: ordered dict, as a sequence of [function_name, data_list]
    service_calls,  \* history: the values().batchUpdate calls received by the sink, in order
    stage_log,      \* history: every add_data_to_batch call made, in order
    last_call,      \* history: the manager method that ran last, and how it ended
    pc,             \* where the report run stands: "idle", "returned" or "raised"
    run             \* history: the report operation that ran last, its inputs and its outcome

vars == <<batch_data, service_calls, stage_log, last_call, pc, run>>

----------------------------------------------------------------------------
(* Bounds of the batch coordinator's specification *)

MaxStaged == 3
MaxFlushes == 2

Sheets == {"Summary"}
Tags == {"average_points_per_player", "power_ranking"}
Cells == {<<"B", 1>>}
StagedValues == {[str |-> "League average"], [n |-> 150, d |-> 1]}

(* How values().batchUpdate(...).execute() can end: normally, with the      *)
(* HttpError that write_batch catches, or with any other exception.         *)
SinkOutcomes == {"ok", "HttpError", "OtherError"}

----------------------------------------------------------------------------
(* Helpers on sequences *)

RECURSIVE Concat(_)
Concat(ss) == IF ss = <<>> THEN <<>> ELSE Head(ss) \o Concat(Tail(ss))

IndexOfTag(bd, fn) ==
    IF \E i \in 1..Len(bd) : bd[i].function_name = fn
    THEN CHOOSE i \in 1..Len(bd) : bd[i].function_name = fn
    ELSE 0

----------------------------------------------------------------------------
(* GoogleSheetsManager *)

(* A plausible slip: the tag's list is replaced instead of appended to *)
add_data_to_batch_replacing(bd, sheet_name, cell_range, value, function_name, id) ==
    LET entry == [sheet_name |-> sheet_name, cell_range |-> cell_range,
                  value |-> value, id |-> id]
        i == IndexOfTag(bd, function_name)
    IN  IF i = 0
        THEN Append(bd, [function_name |-> function_name, data_list |-> <<entry>>])
        ELSE [bd EXCEPT ![i].data_list = <<entry>>]

(* add_data_to_batch: a new tag gets an empty list at the end of the dict,  *)
(* then the entry is appended to the tag's list.  id is the identity of the *)
(* dict object appended (the number of the stage call that made it).        *)
add_data_to_batch(bd, sheet_name, cell_range, value, function_name, id) ==
    LET entry == [sheet_name |-> sheet_name, cell_range |-> cell_range,
                  value |-> value, id |-> id]
        i == IndexOfTag(bd, function_name)
    IN  IF i = 0
        THEN Append(bd, [function_name |-> function_name, data_list |-> <<entry>>])
        ELSE [bd EXCEPT ![i].data_list = Append(@, entry)]

(* write_to_sheet only forwards to add_data_to_batch *)
write_to_sheet(bd, sheet_name, cell_range, value, function_name, id) ==
    add_data_to_batch(bd, sheet_name, cell_range, value, function_name, id)

BatchItem(data) ==
    [range |-> <<data.sheet_name, data.cell_range>>,
     values |-> << <<data.value>> >>,
     id |-> data.id]

(* A plausible slip: only the first tag's writes are sent *)
batch_values_first_tag_only(bd) ==
    IF bd = <<>> THEN <<>>
    ELSE [k \in 1..Len(bd[1].data_list) |-> BatchItem(bd[1].data_list[k])]

(* write_batch, lines 437-446: the items of every tag, in dict order *)
batch_values(bd) ==
    Concat([i \in 1..Len(bd) |->
              [k \in 1..Len(bd[i].data_list) |-> BatchItem(bd[i].data_list[k])]])

(* A plausible slip: the pending map is cleared only once the sink accepted *)
batch_data_after_flush_keep_on_failure(bd, outcome) ==
    IF outcome = "ok" THEN <<>> ELSE bd

(* write_batch, line 449: the pending map is cleared before the sink call *)
batch_data_after_flush(bd, outcome) == <<>>

(* write_batch, lines 451-458: one batchUpdate call; an HttpError is        *)
(* printed and swallowed, any other exception leaves the method.            *)
flush_result(outcome) ==
    IF outcome \in {"ok", "HttpError"}
    THEN [returned |-> "None", raised |-> "none"]
    ELSE [returned |-> "nothing", raised |-> outcome]

sink_call(bd, outcome, upto) ==
    [data |-> batch_values(bd), valueInputOption |-> "RAW",
     outcome |-> outcome, upto |-> upto]

----------------------------------------------------------------------------
(* The coordinator's operations as actions *)

NoRun == [op |-> "none"]

(* what a method without a return statement gives its caller *)
SuccessReturn == [returned |-> "None", raised |-> "none"]

Stage(method, sheet_name, cell_range, value, function_name) ==
    /\ Len(stage_log) < MaxStaged
    /\ LET id == Len(stage_log) + 1
       IN  /\ batch_data' =
                 IF method = "write_to_sheet"
                 THEN write_to_sheet(batch_data, sheet_name, cell_range, value,
                                     function_name, id)
                 ELSE add_data_to_batch(batch_data, sheet_name, cell_range, value,
                                        function_name, id)
           /\ stage_log' = Append(stage_log,
                 [function_name |-> function_name, sheet_name |-> sheet_name,
                  cell_range |-> cell_range, value |-> value, id |-> id])
    /\ last_call' = [method |-> method, result |-> SuccessReturn]
    /\ UNCHANGED <<service_calls, pc, run>>

StageCall ==
    \E method \in {"add_data_to_batch", "write_to_sheet"}, s \in Sheets, c \in Cells,
       v \in StagedValues, fn \in Tags :
        Stage(method, s, c, v, fn)

WriteBatch ==
    /\ Len(service_calls) < MaxFlushes
    /\ \E outcome \in SinkOutcomes :
        /\ service_calls' = Append(service_calls,
                                   sink_call(batch_data, outcome, Len(stage_log)))
        /\ batch_data' = batch_data_after_flush(batch_data, outcome)
        /\ last_call' = [method |-> "write_batch", result |-> flush_result(outcome)]
    /\ UNCHANGED <<stage_log, pc, run>>

Init ==
    /\ batch_data = <<>>
    /\ service_calls = <<>>
    /\ stage_log = <<>>
    /\ last_call = [method |-> "none", result |-> SuccessReturn]
    /\ pc = "idle"
    /\ run = NoRun

NextBatch == StageCall \/ WriteBatch

SpecBatch == Init /\ [][NextBatch]_vars

----------------------------------------------------------------------------
(* Numbers: exact rationals in hundredths of a point *)

RECURSIVE GCD(_, _)
GCD(a, b) == IF b = 0 THEN a ELSE GCD(b, a % b)

(* n/d in lowest terms, for d > 0 *)
Norm(n, d) == LET g == GCD(IF n < 0 THEN -n ELSE n, d) IN [n |-> n \div g, d |-> d \div g]

Hundredths(h) == [n |-> h, d |-> 1]
Points(p) == Hundredths(100 * p)
Zero == Hundredths(0)

RAdd(x, y) == Norm(x.n * y.d + y.n * x.d, x.d * y.d)
RSub(x, y) == Norm(x.n * y.d - y.n * x.d, x.d * y.d)
RDiv(x, k) == Norm(x.n, x.d * k)

(* round(x, 2): the nearest whole number of hundredths, ties to even *)
round2(x) ==
    LET q == x.n \div x.d
        r == x.n - q * x.d
    IN  Hundredths(IF 2 * r < x.d THEN q
                   ELSE IF 2 * r > x.d THEN q + 1
                   ELSE IF q % 2 = 0 THEN q ELSE q + 1)

RECURSIVE RSum(_)
RSum(xs) == IF xs = <<>> THEN Zero ELSE RAdd(Head(xs), RSum(Tail(xs)))

----------------------------------------------------------------------------
(* Cell references *)

ord_A == 65

Chars == <<"A", "B", "C", "D", "E", "F", "G", "H", "I", "J", "K", "L", "M",
           "N", "O", "P", "Q", "R", "S", "T", "U", "V", "W", "X", "Y", "Z",
           "[", "BACKSLASH", "]", "^", "_">>

(* chr(code) for the codes from ord('A') on; chr(92) is written out *)
chr(code) == Chars[code - ord_A + 1]

(* f"{chr(ord('A') + column)}{index_row}" *)
cell(column, index_row) == <<chr(ord_A + column), index_row>>

----------------------------------------------------------------------------
(* The league and the data its provider returns *)

NumTeams == 3
MaxMatchups == 1
MaxWeeks == 2

TeamPool == <<"Bears", "Lions", "Jets", "Rams", "Colts", "Bills">>

(* league.teams: the canonical team list *)
league_teams == SubSeq(TeamPool, 1, NumTeams)

Player(position, slot_position, points) ==
    [position |-> position, slot_position |-> slot_position,
     stats |-> [has_points |-> TRUE, points |-> points]]

(* a player with no points record for the week *)
PlayerNoStats(position, slot_position) ==
    [position |-> position, slot_position |-> slot_position,
     stats |-> [has_points |-> FALSE, points |-> 0]]

(* The lineups a team can have in a week: both positions started; a QB     *)
(* and a second QB without a points record, no WR; a scoreless QB with the *)
(* only WR on the bench; no QB and nobody started.                         *)
Lineups ==
    { << Player("QB", "QB", 2), Player("WR", "WR", 1) >>,
      << Player("QB", "QB", 1), PlayerNoStats("QB", "OP") >>,
      << Player("QB", "QB", 0), Player("WR", "BE", 3) >>,
      << Player("WR", "BE", 1) >> }

(* projected and actual team scores, in hundredths *)
ProjectedScores == {10050}
ActualScores == {10000, 10125}

(* power-ranking scores, in hundredths *)
RankScores == {1000, 1001}

Side(team, lineup, projected, score) ==
    [team |-> team, lineup |-> lineup, projected |-> projected, score |-> score]

Matchup(home, away) ==
    [home_team |-> home.team, home_lineup |-> home.lineup,
     home_projected |-> home.projected, home_score |-> home.score,
     away_team |-> away.team, away_lineup |-> away.lineup,
     away_projected |-> away.projected, away_score |-> away.score]

Range(f) == {f[i] : i \in DOMAIN f}

MatchupTeams(m) == {m.home_team, m.away_team}

(* league.box_scores(week): up to MaxMatchups matchups, no team twice *)
BoxScores(lineups, projecteds, scores) ==
    LET sides == {Side(t, l, p, s) : t \in Range(league_teams), l \in lineups,
                                     p \in projecteds, s \in scores}
        matchups == {Matchup(h, a) : h \in sides, a \in sides}
        ok(ms) == /\ \A i \in 1..Len(ms) : ms[i].home_team # ms[i].away_team
                  /\ \A i, j \in 1..Len(ms) :
                        i # j => MatchupTeams(ms[i]) \cap MatchupTeams(ms[j]) = {}
    IN  UNION { {ms \in [1..k -> matchups] : ok(ms)} : k \in 1..MaxMatchups }

----------------------------------------------------------------------------
(* TeamData and FantasyFootballLeague *)

None == [none |-> TRUE]
Some(v) == [none |-> FALSE, v |-> v]

(* TeamData.__init__: additional_data starts empty, so every getter gives None *)
TeamData(team, lineup, index_column, projected, score) ==
    [team |-> team, lineup |-> lineup, index_column |-> index_column,
     projected |-> projected, score |-> score,
     average_per_overall |-> None, power_ranking |-> None,
     percentage_per_position |-> None]

Raised(error) == [error |-> error, teams_data |-> <<>>]
Returned(teams_data) == [error |-> "none", teams_data |-> teams_data]

(* list.index(x): 0-based position of the first element equal to x *)
list_index(list, x) == (CHOOSE i \in 1..Len(list) :
                           /\ list[i] = x
                           /\ \A j \in 1..(i - 1) : list[j] # x) - 1

(* get_teams_data: home then away of every matchup, in the provider's      *)
(* order; league.teams.index raises ValueError for a team not in the list  *)
matchup_side(matchup, team_type) ==
    IF team_type = "home"
    THEN Side(matchup.home_team, matchup.home_lineup, matchup.home_projected,
              matchup.home_score)
    ELSE Side(matchup.away_team, matchup.away_lineup, matchup.away_projected,
              matchup.away_score)

matchup_sides(box_scores) ==
    Concat([i \in 1..Len(box_scores) |->
              << matchup_side(box_scores[i], "home"), matchup_side(box_scores[i], "away") >>])

teams_data_of(sides) ==
    IF \E i \in 1..Len(sides) : sides[i].team \notin Range(league_teams)
    THEN Raised("ValueError")
    ELSE Returned([i \in 1..Len(sides) |->
            TeamData(sides[i].team, sides[i].lineup,
                     list_index(league_teams, sides[i].team) + 1,
                     sides[i].projected, sides[i].score)])

(* A plausible slip: the column is the team's place in the week's list *)
get_teams_data_enumerated(box_scores) ==
    LET sides == matchup_sides(box_scores)
    IN  IF \E i \in 1..Len(sides) : sides[i].team \notin Range(league_teams)
        THEN Raised("ValueError")
        ELSE Returned([i \in 1..Len(sides) |->
                TeamData(sides[i].team, sides[i].lineup, i,
                         sides[i].projected, sides[i].score)])

(* A plausible slip: a team missing from league.teams gets column 0 *)
get_teams_data_default_column(box_scores) ==
    LET sides == matchup_sides(box_scores)
    IN  Returned([i \in 1..Len(sides) |->
            TeamData(sides[i].team, sides[i].lineup,
                     IF sides[i].team \in Range(league_teams)
                     THEN list_index(league_teams, sides[i].team) + 1 ELSE 0,
                     sides[i].projected, sides[i].score)])

get_teams_data(box_scores) == teams_data_of(matchup_sides(box_scores))

IsIn(x, list) == \E i \in 1..Len(list) : list[i] = x

RECURSIVE SumPoints(_)
SumPoints(players) ==
    IF players = <<>> THEN 0
    ELSE Head(players).stats.points + SumPoints(Tail(players))

(* the (position, value) pairs appended to a table, or None when nothing   *)
(* was appended                                                            *)
TableOf(rows) == IF rows = <<>> THEN None ELSE Some(rows)

(* A plausible slip: a position nobody counts for is recorded as 0 *)
average_table_zero_when_absent(lineup, positions, slot_conditions) ==
    LET counted(position) ==
            SelectSeq(lineup, LAMBDA player :
                /\ player.position = position
                /\ ~IsIn(player.slot_position, slot_conditions))
        with_points(players) ==
            SelectSeq(players, LAMBDA player : player.stats.has_points)
        row(position) ==
            LET team_player_count == Len(counted(position))
                team_player_stats == SumPoints(with_points(counted(position)))
            IN  IF team_player_count > 0
                THEN <<position, round2(RDiv(Points(team_player_stats),
                                             team_player_count))>>
                ELSE <<position, Zero>>
    IN  TableOf([k \in 1..Len(positions) |-> row(positions[k])])

(* average_points_per_player, lines 187-205, for one team *)
average_table(lineup, positions, slot_conditions) ==
    LET counted(position) ==
            SelectSeq(lineup, LAMBDA player :
                /\ player.position = position
                /\ ~IsIn(player.slot_position, slot_conditions))
        with_points(players) ==
            SelectSeq(players, LAMBDA player : player.stats.has_points)
        row(position) ==
            LET team_player_count == Len(counted(position))
                team_player_stats == SumPoints(with_points(counted(position)))
            IN  IF team_player_count > 0
                THEN << <<position, round2(RDiv(Points(team_player_stats),
                                                 team_player_count))>> >>
                ELSE <<>>
    IN  TableOf(Concat([k \in 1..Len(positions) |-> row(positions[k])]))

with_average_tables(got, positions, slot_conditions) ==
    IF got.error # "none" THEN got
    ELSE Returned([i \in 1..Len(got.teams_data) |->
            [got.teams_data[i] EXCEPT !.average_per_overall =
                average_table(got.teams_data[i].lineup, positions, slot_conditions)]])

average_points_per_player(box_scores, positions, slot_conditions) ==
    with_average_tables(get_teams_data(box_scores), positions, slot_conditions)

(* A plausible slip: the division is not guarded, and the quotient 0/0 of *)
(* a team without points is recorded as it comes                          *)
percentage_table_unguarded(lineup, positions, slot_conditions) ==
    LET scoring == SelectSeq(lineup, LAMBDA player :
                        /\ player.stats.has_points
                        /\ ~IsIn(player.slot_position, slot_conditions))
        total_team_points == SumPoints(scoring)
        row(position) ==
            LET total_points_for_position ==
                    SumPoints(SelectSeq(scoring, LAMBDA player : player.position = position))
            IN  <<position,
                  IF total_team_points > 0
                  THEN round2(Norm(10000 * total_points_for_position, total_team_points))
                  ELSE IF total_team_points < 0
                  THEN round2(Norm(-10000 * total_points_for_position, -total_team_points))
                  ELSE [n |-> 0, d |-> 0]>>
    IN  TableOf([k \in 1..Len(positions) |-> row(positions[k])])

(* A plausible slip: the share is recorded as a fraction, not times 100 *)
percentage_table_fraction(lineup, positions, slot_conditions) ==
    LET scoring == SelectSeq(lineup, LAMBDA player :
                        /\ player.stats.has_points
                        /\ ~IsIn(player.slot_position, slot_conditions))
        total_team_points == SumPoints(scoring)
        row(position) ==
            LET total_points_for_position ==
                    SumPoints(SelectSeq(scoring, LAMBDA player : player.position = position))
            IN  <<position,
                  IF total_team_points > 0
                  THEN round2(Norm(100 * total_points_for_position, total_team_points))
                  ELSE IF total_team_points < 0
                  THEN round2(Norm(-100 * total_points_for_position, -total_team_points))
                  ELSE Zero>>
    IN  TableOf([k \in 1..Len(positions) |-> row(positions[k])])

(* percentage_of_points_by_position, lines 247-280, for one team *)
percentage_table(lineup, positions, slot_conditions) ==
    LET scoring == SelectSeq(lineup, LAMBDA player :
                        /\ player.stats.has_points
                        /\ ~IsIn(player.slot_position, slot_conditions))
        total_team_points == SumPoints(scoring)
        row(position) ==
            LET total_points_for_position ==
                    SumPoints(SelectSeq(scoring, LAMBDA player : player.position = position))
                percentage_points_per_position ==
                    IF total_team_points > 0
                    THEN Norm(10000 * total_points_for_position, total_team_points)
                    ELSE IF total_team_points < 0
                    THEN Norm(-10000 * total_points_for_position, -total_team_points)
                    ELSE Zero
            IN  <<position, round2(percentage_points_per_position)>>
    IN  TableOf([k \in 1..Len(positions) |-> row(positions[k])])

with_percentage_tables(got, positions, slot_conditions) ==
    IF got.error # "none" THEN got
    ELSE Returned([i \in 1..Len(got.teams_data) |->
            [got.teams_data[i] EXCEPT !.percentage_per_position =
                percentage_table(got.teams_data[i].lineup, positions, slot_conditions)]])

percentage_of_points_by_position(box_scores, positions, slot_conditions) ==
    with_percentage_tables(get_teams_data(box_scores), positions, slot_conditions)

(* power_ranking_per_player, lines 223-226: every ranking is joined to the *)
(* TeamData of its team; the last ranking of a team wins                   *)
last_ranking(power_rankings, team) ==
    LET hits == {k \in 1..Len(power_rankings) : power_rankings[k][2] = team}
    IN  IF hits = {} THEN None
        ELSE Some(power_rankings[CHOOSE k \in hits : \A h \in hits : h <= k][1])

with_power_rankings(got, power_rankings) ==
    IF got.error # "none" THEN got
    ELSE Returned([i \in 1..Len(got.teams_data) |->
            [got.teams_data[i] EXCEPT !.power_ranking =
                last_ranking(power_rankings, got.teams_data[i].team)]])

power_ranking_per_player(box_scores, power_rankings) ==
    with_power_rankings(get_teams_data(box_scores), power_rankings)

(* sorted(teams_data, key=index_column): stable insertion by key *)
RECURSIVE sorted_by_index_column(_)
sorted_by_index_column(teams_data) ==
    IF teams_data = <<>> THEN <<>>
    ELSE LET rest == sorted_by_index_column(Tail(teams_data))
             t == Head(teams_data)
             before == SelectSeq(rest, LAMBDA u : u.index_column < t.index_column)
             after == SelectSeq(rest, LAMBDA u : u.index_column >= t.index_column)
         IN  before \o <<t>> \o after

----------------------------------------------------------------------------
(* What a report operation does, as the sequence of its stage calls up to  *)
(* the first exception                                                     *)

Write(method, sheet_name, cell_range, value, function_name) ==
    [raise |-> "none", method |-> method, sheet_name |-> sheet_name,
     cell_range |-> cell_range, value |-> value, function_name |-> function_name]

Raise(error) ==
    [raise |-> error, method |-> "none", sheet_name |-> "none",
     cell_range |-> <<"none", 0>>, value |-> Zero, function_name |-> "none"]

FirstRaise(events) ==
    IF \E i \in 1..Len(events) : events[i].raise # "none"
    THEN CHOOSE i \in 1..Len(events) :
            /\ events[i].raise # "none"
            /\ \A j \in 1..(i - 1) : events[j].raise = "none"
    ELSE 0

Str(text) == [str |-> text]
Label(prefix, position, suffix) == [str |-> prefix, position |-> position, suffix |-> suffix]

(* one team's cell of a row: the error raised on the way to it, or its     *)
(* column and value                                                        *)
TeamCell(column, value) == [error |-> "none", column |-> column, value |-> value]
NoCell(error) == [error |-> error, column |-> 0, value |-> Zero]

CellValues(cells) == [i \in 1..Len(cells) |-> cells[i].value]

(* the league-average column: chr(ord('A') + len(teams_data) + 1) *)
league_average_column(count) == count + 1

(* round(league_average / len(teams_data), 2) *)
league_average_rounded(summed, count) == round2(RDiv(summed, count))

(* One row of a report: the label in column A, then every team's cell,     *)
(* then the league-average cell; count is len(teams_data).                 *)
RowEvents(sheet_name, index_row, label, label_tag, tag, cells, count, league_value) ==
    << Write("write_to_sheet", sheet_name, cell(0, index_row), label, label_tag) >>
    \o [i \in 1..Len(cells) |->
          IF cells[i].error = "none"
          THEN Write("add_data_to_batch", sheet_name, cell(cells[i].column, index_row),
                     cells[i].value, tag)
          ELSE Raise(cells[i].error)]
    \o << IF count = 0 THEN Raise("ZeroDivisionError")
          ELSE Write("add_data_to_batch", sheet_name,
                     cell(league_average_column(count), index_row), league_value, tag) >>

(* table[position_index][1] of a getter's result *)
Subscript(table, position_index) ==
    IF table.none THEN NoCell("TypeError")
    ELSE IF position_index + 1 > Len(table.v) THEN NoCell("IndexError")
    ELSE TeamCell(0, table.v[position_index + 1][2])

(* a row whose league average is round(sum of the cells / count, 2) *)
RoundedRow(sheet_name, index_row, label, label_tag, tag, cells, count) ==
    RowEvents(sheet_name, index_row, label, label_tag, tag, cells, count,
              league_average_rounded(RSum(CellValues(cells)), count))

(* the cell of a value read for a team: in the team's column *)
in_column(read, index_column) ==
    [read EXCEPT !.column = IF read.error = "none" THEN index_column ELSE 0]

team_names_row(got, sheet_name, index_row) ==
    IF got.error # "none" THEN << Raise(got.error) >>
    ELSE [i \in 1..Len(got.teams_data) |->
             Write("write_to_sheet", sheet_name,
                   cell(got.teams_data[i].index_column, index_row),
                   Str(got.teams_data[i].team), "print_team_names_to_sheet")]
         \o << Write("write_to_sheet", sheet_name,
                     cell(league_average_column(Len(got.teams_data)), index_row),
                     Str("League average"), "print_team_names_to_sheet") >>

(* get_and_write_team_names *)
team_names_events(box_scores, sheet_name) ==
    team_names_row(get_teams_data(box_scores), sheet_name, 1)

average_cells(teams_data, position_index) ==
    [i \in 1..Len(teams_data) |->
        in_column(Subscript(teams_data[i].average_per_overall, position_index),
                  teams_data[i].index_column)]

average_points_rows(got, sheet_name, start_position, positions, started_or_not) ==
    IF got.error # "none" THEN << Raise(got.error) >>
    ELSE Concat([k \in 1..Len(positions) |->
            RoundedRow(sheet_name, start_position + k - 1,
                       Label("Pts/", positions[k], started_or_not),
                       "average_points_per_player", "average_points_per_player",
                       average_cells(got.teams_data, k - 1), Len(got.teams_data))])

(* get_and_write_average_points_per_player *)
average_points_events(box_scores, sheet_name, start_position, positions, positions_to_omit, started_or_not) ==
    average_points_rows(average_points_per_player(box_scores, positions, positions_to_omit),
                        sheet_name, start_position, positions, started_or_not)

rounded_value(read) == [read EXCEPT !.value = round2(read.value)]

percentage_cells(teams_data, position_index) ==
    [i \in 1..Len(teams_data) |->
        rounded_value(in_column(Subscript(teams_data[i].percentage_per_position,
                                          position_index),
                                teams_data[i].index_column))]

percentage_rows(got, sheet_name, start_position, positions, started_or_not) ==
    IF got.error # "none" THEN << Raise(got.error) >>
    ELSE Concat([k \in 1..Len(positions) |->
            RoundedRow(sheet_name, start_position + k - 1,
                       Label("% points/", positions[k], started_or_not),
                       "percentage_of_points_per_position",
                       "percentage_of_points_per_position",
                       percentage_cells(got.teams_data, k - 1), Len(got.teams_data))])

(* get_and_write_percentage_of_points_per_position *)
percentage_events(box_scores, sheet_name, start_position, positions, positions_to_omit, started_or_not) ==
    percentage_rows(percentage_of_points_by_position(box_scores, positions,
                                                     positions_to_omit),
                    sheet_name, start_position, positions, started_or_not)

(* float(team.get_power_ranking()) *)
float_of(ranking) ==
    IF ranking.none THEN NoCell("TypeError") ELSE TeamCell(0, Hundredths(ranking.v))

power_ranking_cells(teams_data) ==
    [i \in 1..Len(teams_data) |->
        in_column(float_of(teams_data[i].power_ranking), teams_data[i].index_column)]

(* line 669: league_average / len(teams_data), not rounded *)
power_ranking_row_events(sheet_name, index_row, cells, count) ==
    RowEvents(sheet_name, index_row, Str("Power Ranking"),
              "power_ranking", "power_ranking", cells, count,
              IF count = 0 THEN Zero ELSE RDiv(RSum(CellValues(cells)), count))

power_ranking_rows(got, sheet_name, index_row) ==
    IF got.error # "none" THEN << Raise(got.error) >>
    ELSE power_ranking_row_events(sheet_name, index_row,
                                  power_ranking_cells(got.teams_data),
                                  Len(got.teams_data))

(* get_and_write_power_ranking: the league average is staged unrounded *)
power_ranking_events(box_scores, power_rankings, sheet_name, index_row) ==
    power_ranking_rows(power_ranking_per_player(box_scores, power_rankings),
                       sheet_name, index_row)

(* round(team.score - team.projected, 2) *)
projection_diff(team_data) ==
    round2(RSub(Hundredths(team_data.score), Hundredths(team_data.projected)))

over_under_cells(teams_data) ==
    [i \in 1..Len(teams_data) |->
        TeamCell(teams_data[i].index_column, projection_diff(teams_data[i]))]

over_under_rows(got, sheet_name, index_row) ==
    IF got.error # "none" THEN << Raise(got.error) >>
    ELSE RoundedRow(sheet_name, index_row, Str("Over/Under Projection"),
                    "projection_diff", "power_ranking",
                    over_under_cells(got.teams_data), Len(got.teams_data))

(* get_and_write_over_under_projection *)
over_under_events(box_scores, sheet_name, index_row) ==
    over_under_rows(get_teams_data(box_scores), sheet_name, index_row)

----------------------------------------------------------------------------
(* The multi-week operations: a loop over the weeks that sums into          *)
(* overall_teams_data by position in the sorted week, then the rows         *)

(* The locals of the week loop.  average_bound says whether                 *)
(* average_overall_team_data has been assigned; skipped is the history of   *)
(* the team-weeks dropped by the length check.                              *)
LoopStart ==
    [error |-> "none", overall_teams_data |-> <<>>, average_bound |-> FALSE,
     average_overall_team_data |-> <<>>, teams_count |-> 0, skipped |-> {}]

TableGetter(team_data, kind) ==
    IF kind = "average" THEN team_data.average_per_overall
    ELSE team_data.percentage_per_position

(* lines 600-604: (position, value / weeks) for every pair of a sub-list *)
averaged(sub_list, weeks) ==
    [k \in 1..Len(sub_list) |-> <<sub_list[k][1], RDiv(sub_list[k][2], weeks)>>]

(* lines 592-598: the pairs of the running total with the week's values   *)
(* added, position by position                                             *)
summed_table(overall_table, table) ==
    [k \in 1..Len(table) |->
        <<overall_table[k][1], RAdd(overall_table[k][2], table[k][2])>>]

(* lines 599-604: every sub-list of overall_teams_data divided by weeks;   *)
(* a None among them is a TypeError                                        *)
with_averages(loop, new_overall, weeks) ==
    IF \E j \in 1..Len(new_overall) : new_overall[j].none
    THEN [loop EXCEPT !.overall_teams_data = new_overall,
                      !.error = "TypeError"]
    ELSE [loop EXCEPT
            !.overall_teams_data = new_overall,
            !.average_bound = TRUE,
            !.average_overall_team_data =
                [j \in 1..Len(new_overall) |-> averaged(new_overall[j].v, weeks)]]

add_table(loop, i, table, team, week, weeks) ==
    IF loop.error # "none" THEN loop
    ELSE IF i > Len(loop.overall_teams_data) THEN [loop EXCEPT !.error = "IndexError"]
    ELSE IF loop.overall_teams_data[i].none \/ table.none
    THEN [loop EXCEPT !.error = "TypeError"]
    ELSE IF Len(loop.overall_teams_data[i].v) # Len(table.v)
    THEN [loop EXCEPT !.skipped = @ \cup {<<team, week>>}]
    ELSE with_averages(loop,
                       [loop.overall_teams_data EXCEPT
                           ![i] = Some(summed_table(loop.overall_teams_data[i].v, table.v))],
                       weeks)

(* lines 583-604 for the i-th team of the sorted week *)
add_team_table(loop, i, team_data, kind, week, weeks) ==
    add_table(loop, i, TableGetter(team_data, kind), team_data.team, week, weeks)

RECURSIVE add_team_tables(_, _, _, _, _, _)
add_team_tables(loop, i, sorted_teams_data, kind, week, weeks) ==
    IF i > Len(sorted_teams_data) THEN loop
    ELSE add_team_tables(add_team_table(loop, i, sorted_teams_data[i], kind, week, weeks),
                         i + 1, sorted_teams_data, kind, week, weeks)

(* one iteration of the week loop of the average and percentage operations *)
sorted_table_week(counted, sorted_teams_data, kind, week, weeks) ==
    IF counted.overall_teams_data = <<>>
    THEN [counted EXCEPT !.overall_teams_data =
             [i \in 1..Len(sorted_teams_data) |->
                 TableGetter(sorted_teams_data[i], kind)]]
    ELSE add_team_tables(counted, 1, sorted_teams_data, kind, week, weeks)

table_week(loop, got, kind, week, weeks) ==
    IF loop.error # "none" THEN loop
    ELSE IF got.error # "none" THEN [loop EXCEPT !.error = got.error]
    ELSE sorted_table_week([loop EXCEPT !.teams_count = Len(got.teams_data)],
                           sorted_by_index_column(got.teams_data), kind, week, weeks)

single_week_tables(box_scores, kind, positions, slot_conditions) ==
    IF kind = "average"
    THEN average_points_per_player(box_scores, positions, slot_conditions)
    ELSE percentage_of_points_by_position(box_scores, positions, slot_conditions)

RECURSIVE table_weeks(_, _, _, _, _, _, _)
table_weeks(loop, week, weeks, data, kind, positions, slot_conditions) ==
    IF week > weeks THEN loop
    ELSE table_weeks(
            table_week(loop,
                       single_week_tables(data[week], kind, positions, slot_conditions),
                       kind, week, weeks),
            week + 1, weeks, data, kind, positions, slot_conditions)

(* average_overall_team_data[team][position_index][1] *)
AverageSubscript(loop, team, position_index) ==
    IF ~loop.average_bound THEN NoCell("UnboundLocalError")
    ELSE IF team + 1 > Len(loop.average_overall_team_data) THEN NoCell("IndexError")
    ELSE IF position_index + 1 > Len(loop.average_overall_team_data[team + 1])
    THEN NoCell("IndexError")
    ELSE TeamCell(team + 1, loop.average_overall_team_data[team + 1][position_index + 1][2])

(* average_overall_team_data[team][position_index][1] for every team *)
averaged_reads(loop, position_index) ==
    [t \in 1..loop.teams_count |-> AverageSubscript(loop, t - 1, position_index)]

(* the average operation sums the rounded values into the league average  *)
(* (line 615), the percentage operation the unrounded ones (line 950)     *)
all_weeks_table_row(kind, read, cells, count, sheet_name, index_row, label, tag) ==
    RowEvents(sheet_name, index_row, label, tag, tag, cells, count,
              league_average_rounded(IF kind = "average" THEN RSum(CellValues(cells))
                                     ELSE RSum(CellValues(read)),
                                     count))

all_weeks_table_rows(kind, loop, sheet_name, start_position, positions, started_or_not) ==
    IF loop.error # "none" THEN << Raise(loop.error) >>
    ELSE Concat([k \in 1..Len(positions) |->
            all_weeks_table_row(kind, averaged_reads(loop, k - 1),
                                [t \in 1..loop.teams_count |->
                                    rounded_value(AverageSubscript(loop, t - 1, k - 1))],
                                loop.teams_count, sheet_name, start_position + k - 1,
                                Label(IF kind = "average" THEN "Pts/" ELSE "% points/",
                                      positions[k], started_or_not),
                                IF kind = "average"
                                THEN "average_points_per_player_all_weeks"
                                ELSE "percentage_of_points_per_position")])

(* get_and_write_average_points_per_player_all_weeks and                    *)
(* get_and_write_percentage_of_points_per_position_all_weeks                *)
all_weeks_table_events(kind, data, weeks, sheet_name, start_position, positions, positions_to_omit, started_or_not) ==
    all_weeks_table_rows(kind,
                         table_weeks(LoopStart, 1, weeks, data, kind, positions,
                                     positions_to_omit),
                         sheet_name, start_position, positions, started_or_not)

(* lines 694-701 and 788-794 for one week: the scalars of the sorted week   *)
(* start the running sums or are added to them by position                  *)
scalar_week(loop, got, scalars) ==
    LET counted == [loop EXCEPT !.teams_count = Len(got.teams_data)]
        failed == {i \in 1..Len(scalars) :
                      scalars[i].error # "none" \/ (loop.overall_teams_data # <<>>
                                                    /\ i > Len(loop.overall_teams_data))}
        first == CHOOSE i \in failed : \A j \in failed : i <= j
    IN  IF loop.error # "none" THEN loop
        ELSE IF got.error # "none" THEN [loop EXCEPT !.error = got.error]
        ELSE IF failed # {}
        THEN [loop EXCEPT !.error =
                 IF loop.overall_teams_data # <<>> /\ first > Len(loop.overall_teams_data)
                 THEN "IndexError" ELSE scalars[first].error]
        ELSE IF loop.overall_teams_data = <<>>
        THEN [counted EXCEPT !.overall_teams_data = CellValues(scalars)]
        ELSE [counted EXCEPT !.overall_teams_data =
                 [i \in 1..Len(@) |->
                     IF i <= Len(scalars) THEN RAdd(@[i], scalars[i].value) ELSE @[i]]]

(* a week, with the scalar of every team of the sorted week *)
scalar_week_of(loop, got, kind) ==
    scalar_week(loop, got,
                [i \in 1..Len(got.teams_data) |->
                    IF kind = "power_ranking"
                    THEN float_of(sorted_by_index_column(got.teams_data)[i].power_ranking)
                    ELSE TeamCell(0, projection_diff(
                                        sorted_by_index_column(got.teams_data)[i]))])

RECURSIVE scalar_weeks(_, _, _, _, _, _)
scalar_weeks(loop, week, weeks, data, rankings, kind) ==
    IF week > weeks THEN loop
    ELSE scalar_weeks(scalar_week_of(loop,
                                     power_ranking_per_player(data[week], rankings[week]),
                                     kind),
                      week + 1, weeks, data, rankings, kind)

(* round(overall_teams_data[i] / weeks, 2) in column i *)
all_weeks_scalar_cells(overall_teams_data, weeks) ==
    [i \in 1..Len(overall_teams_data) |->
        TeamCell(i, round2(RDiv(overall_teams_data[i], weeks)))]

all_weeks_scalar_row(kind, loop, weeks, sheet_name, index_row) ==
    IF loop.error # "none" THEN << Raise(loop.error) >>
    ELSE RoundedRow(sheet_name, index_row,
                    IF kind = "power_ranking" THEN Str("Power Ranking")
                    ELSE Str("Over/Under Projection"),
                    IF kind = "power_ranking" THEN "power_ranking"
                    ELSE "projection_diff",
                    "power_ranking",
                    all_weeks_scalar_cells(loop.overall_teams_data, weeks),
                    loop.teams_count)

(* get_and_write_power_ranking_all_weeks and                                *)
(* get_and_write_over_under_projection_all_weeks                            *)
all_weeks_scalar_events(kind, data, rankings, weeks, sheet_name, index_row) ==
    all_weeks_scalar_row(kind, scalar_weeks(LoopStart, 1, weeks, data, rankings, kind),
                         weeks, sheet_name, index_row)

----------------------------------------------------------------------------
(* The report operations as actions *)

(* run_analysis: the arguments it gives the operations *)
positions_to_check == <<"QB", "WR">>

AverageSections ==
    { [start_position |-> 2, positions_to_omit |-> <<"BE">>, started_or_not |-> "started"],
      [start_position |-> 9, positions_to_omit |-> <<>>, started_or_not |-> "overall"] }

PercentageSections ==
    { [start_position |-> 20, positions_to_omit |-> <<"BE">>, started_or_not |-> "Started"],
      [start_position |-> 27, positions_to_omit |-> <<>>, started_or_not |-> "Overall"] }

NoSection == [start_position |-> 0, positions_to_omit |-> <<>>, started_or_not |-> "none"]

power_ranking_row == 16
over_under_row == 18

overall_sheet_name == "Summary"
week_sheet_name(week) == <<"Week 1", "Week 2", "Week 3", "Week 4">>[week]

(* what the provider can return for the weeks 1..weeks *)
LineupData(weeks) == [1..weeks -> BoxScores(Lineups, {10050}, {10000})]
ScoreData(weeks) == [1..weeks -> BoxScores({<<>>}, ProjectedScores, ActualScores)]
RankingBoxes == BoxScores({<<>>}, {10050}, {10000})

TeamsOfBox(box_scores) == UNION {MatchupTeams(box_scores[i]) : i \in 1..Len(box_scores)}

(* league.power_rankings(week): a (score, team) pair for every team of the *)
(* week, in any order                                                      *)
PowerRankings(box_scores) ==
    LET teams == TeamsOfBox(box_scores)
        n == Cardinality(teams)
    IN  {r \in [1..n -> RankScores \X teams] : {r[i][2] : i \in 1..n} = teams}

NoRankings(weeks) == [w \in 1..weeks |-> <<>>]

(* a team the provider names in a matchup although league.teams lacks it *)
UnknownTeam == TeamPool[NumTeams + 1]

(* one matchup between a team of the league and the unknown team *)
InconsistentBoxes ==
    UNION { { << Matchup(Side(t, <<>>, 10050, 10000),
                         Side(UnknownTeam, <<>>, 10050, 10000)) >>,
              << Matchup(Side(UnknownTeam, <<>>, 10050, 10000),
                         Side(t, <<>>, 10050, 10000)) >> } :
            t \in Range(league_teams) }

(* the weeks 1..weeks with the unknown team in at least one of them, the   *)
(* other weeks a matchup of the first two teams of the league             *)
InconsistentData(weeks) ==
    {data \in [1..weeks -> InconsistentBoxes \cup
                    { << Matchup(Side(league_teams[1], <<>>, 10050, 10000),
                                 Side(league_teams[2], <<>>, 10050, 10000)) >> }] :
        \E w \in 1..weeks : data[w] \in InconsistentBoxes}

(* power rankings that also rank a team without a matchup in the week: a   *)
(* team of the league that does not play, or the unknown team              *)
RankingsWithStranger(box_scores) ==
    {Append(r, <<1000, t>>) :
        r \in PowerRankings(box_scores),
        t \in (Range(league_teams) \cup {UnknownTeam}) \ TeamsOfBox(box_scores)}

ProviderRankings(box_scores) ==
    IF box_scores \in InconsistentBoxes
    THEN {<< <<1000, box_scores[1].home_team>>, <<1000, box_scores[1].away_team>> >>}
    ELSE PowerRankings(box_scores) \cup RankingsWithStranger(box_scores)

RankingsOfWeeks(data, weeks) ==
    {rankings \in [1..weeks -> UNION {ProviderRankings(data[w]) : w \in 1..weeks}] :
        \A w \in 1..weeks : rankings[w] \in ProviderRankings(data[w])}

stage_one(bd, w, id) ==
    IF w.method = "write_to_sheet"
    THEN write_to_sheet(bd, w.sheet_name, w.cell_range, w.value, w.function_name, id)
    ELSE add_data_to_batch(bd, w.sheet_name, w.cell_range, w.value, w.function_name, id)

RECURSIVE stage_all(_, _, _)
stage_all(bd, staged, id) ==
    IF staged = <<>> THEN bd
    ELSE stage_all(stage_one(bd, Head(staged), id), Tail(staged), id + 1)

LogOf(staged, from) ==
    [i \in 1..Len(staged) |->
        [function_name |-> staged[i].function_name,
         sheet_name |-> staged[i].sheet_name,
         cell_range |-> staged[i].cell_range,
         value |-> staged[i].value, id |-> from + i]]

(* the operation left by an exception of its own: no write_batch *)
Abandon(ran, staged, staged_batch, error) ==
    /\ batch_data' = staged_batch
    /\ service_calls' = service_calls
    /\ last_call' = [method |-> IF staged = <<>> THEN last_call.method
                                ELSE staged[Len(staged)].method,
                     result |-> SuccessReturn]
    /\ pc' = "raised"
    /\ run' = [ran EXCEPT !.error = error]

(* A plausible slip: the operation returns without its write_batch call *)
Flush_forgotten(ran, staged_batch, upto) ==
    /\ service_calls' = service_calls
    /\ batch_data' = staged_batch
    /\ last_call' = [method |-> "add_data_to_batch", result |-> SuccessReturn]
    /\ pc' = "returned"
    /\ run' = ran

(* the write_batch call that ends the operation *)
Flush(ran, staged_batch, upto) ==
    \E outcome \in SinkOutcomes :
        /\ service_calls' = Append(service_calls, sink_call(staged_batch, outcome, upto))
        /\ batch_data' = batch_data_after_flush(staged_batch, outcome)
        /\ last_call' = [method |-> "write_batch", result |-> flush_result(outcome)]
        /\ pc' = IF flush_result(outcome).raised = "none" THEN "returned" ELSE "raised"
        /\ run' = [ran EXCEPT !.error = flush_result(outcome).raised]

Ran(ran, staged, error) ==
    /\ stage_log' = stage_log \o LogOf(staged, Len(stage_log))
    /\ IF error # "none"
       THEN Abandon(ran, staged, stage_all(batch_data, staged, Len(stage_log) + 1), error)
       ELSE Flush(ran, stage_all(batch_data, staged, Len(stage_log) + 1),
                  Len(stage_log) + Len(staged))

(* the stage calls made before the first exception, and that exception *)
Stopped(ran, events, first_raise) ==
    Ran(ran,
        IF first_raise = 0 THEN events ELSE SubSeq(events, 1, first_raise - 1),
        IF first_raise = 0 THEN "none" ELSE events[first_raise].raise)

(* A report operation: its stage calls in order, then write_batch unless   *)
(* an exception left the operation before.  An exception that leaves       *)
(* write_batch leaves the operation as well.                               *)
Report(op, weeks, section, data, rankings, events, skipped) ==
    /\ pc = "idle"
    /\ Stopped([op |-> op, weeks |-> weeks, section |-> section, data |-> data,
                rankings |-> rankings, error |-> "none", skipped |-> skipped],
               events, FirstRaise(events))

(* the calls run_analysis makes, for what the provider returns *)
team_names_call(week, box_scores) ==
    Report("team_names", 1, NoSection, <<box_scores>>, NoRankings(1),
           team_names_events(box_scores, week_sheet_name(week)), {})

average_call(week, section, data) ==
    Report("average", 1, section, data, NoRankings(1),
           average_points_events(data[1], week_sheet_name(week),
                                 section.start_position, positions_to_check,
                                 section.positions_to_omit, section.started_or_not),
           {})

average_all_weeks_call(weeks, section, data) ==
    Report("average_all_weeks", weeks, section, data, NoRankings(weeks),
           all_weeks_table_events("average", data, weeks, overall_sheet_name,
                                  section.start_position, positions_to_check,
                                  section.positions_to_omit,
                                  section.started_or_not),
           table_weeks(LoopStart, 1, weeks, data, "average", positions_to_check,
                       section.positions_to_omit).skipped)

power_ranking_call(week, box_scores, power_rankings) ==
    Report("power_ranking", 1, NoSection, <<box_scores>>, <<power_rankings>>,
           power_ranking_events(box_scores, power_rankings,
                                week_sheet_name(week), power_ranking_row),
           {})

power_ranking_all_weeks_call(weeks, data, rankings) ==
    Report("power_ranking_all_weeks", weeks, NoSection, data, rankings,
           all_weeks_scalar_events("power_ranking", data, rankings, weeks,
                                   overall_sheet_name, power_ranking_row),
           {})

over_under_call(week, data) ==
    Report("over_under", 1, NoSection, data, NoRankings(1),
           over_under_events(data[1], week_sheet_name(week), over_under_row), {})

over_under_all_weeks_call(weeks, data) ==
    Report("over_under_all_weeks", weeks, NoSection, data, NoRankings(weeks),
           all_weeks_scalar_events("over_under", data, NoRankings(weeks), weeks,
                                   overall_sheet_name, over_under_row),
           {})

percentage_call(week, section, data) ==
    Report("percentage", 1, section, data, NoRankings(1),
           percentage_events(data[1], week_sheet_name(week),
                             section.start_position, positions_to_check,
                             section.positions_to_omit, section.started_or_not),
           {})

percentage_all_weeks_call(weeks, section, data) ==
    Report("percentage_all_weeks", weeks, section, data, NoRankings(weeks),
           all_weeks_table_events("percentage", data, weeks, overall_sheet_name,
                                  section.start_position, positions_to_check,
                                  section.positions_to_omit,
                                  section.started_or_not),
           table_weeks(LoopStart, 1, weeks, data, "percentage",
                       positions_to_check, section.positions_to_omit).skipped)

(* The operations on a provider whose matchups name teams of the league *)
get_and_write_team_names ==
    /\ pc = "idle"
    /\ \E week \in 1..MaxWeeks, box_scores \in RankingBoxes :
        team_names_call(week, box_scores)

get_and_write_average_points_per_player ==
    /\ pc = "idle"
    /\ \E week \in 1..MaxWeeks, section \in AverageSections, data \in LineupData(1) :
        average_call(week, section, data)

get_and_write_average_points_per_player_all_weeks ==
    /\ pc = "idle"
    /\ \E weeks \in 1..MaxWeeks, section \in AverageSections :
        \E data \in LineupData(weeks) :
            average_all_weeks_call(weeks, section, data)

get_and_write_power_ranking ==
    /\ pc = "idle"
    /\ \E week \in 1..MaxWeeks, box_scores \in RankingBoxes :
        \E power_rankings \in ProviderRankings(box_scores) :
            power_ranking_call(week, box_scores, power_rankings)

get_and_write_power_ranking_all_weeks ==
    /\ pc = "idle"
    /\ \E weeks \in 1..MaxWeeks :
        \E data \in [1..weeks -> RankingBoxes] :
            \E rankings \in RankingsOfWeeks(data, weeks) :
                power_ranking_all_weeks_call(weeks, data, rankings)

get_and_write_over_under_projection ==
    /\ pc = "idle"
    /\ \E week \in 1..MaxWeeks, data \in ScoreData(1) :
        over_under_call(week, data)

get_and_write_over_under_projection_all_weeks ==
    /\ pc = "idle"
    /\ \E weeks \in 1..MaxWeeks :
        \E data \in ScoreData(weeks) :
            over_under_all_weeks_call(weeks, data)

get_and_write_percentage_of_points_per_position ==
    /\ pc = "idle"
    /\ \E week \in 1..MaxWeeks, section \in PercentageSections, data \in LineupData(1) :
        percentage_call(week, section, data)

get_and_write_percentage_of_points_per_position_all_weeks ==
    /\ pc = "idle"
    /\ \E weeks \in 1..MaxWeeks, section \in PercentageSections :
        \E data \in LineupData(weeks) :
            percentage_all_weeks_call(weeks, section, data)

(* run_analysis goes on to its next call once an operation has returned;   *)
(* the histories start afresh for it                                       *)
run_analysis_next ==
    /\ pc = "returned"
    /\ pc' = "idle"
    /\ run' = NoRun
    /\ service_calls' = <<>>
    /\ stage_log' = <<>>
    /\ last_call' = [method |-> "none", result |-> SuccessReturn]
    /\ UNCHANGED batch_data

Next ==
    \/ get_and_write_team_names
    \/ get_and_write_average_points_per_player
    \/ get_and_write_average_points_per_player_all_weeks
    \/ get_and_write_power_ranking
    \/ get_and_write_power_ranking_all_weeks
    \/ get_and_write_over_under_projection
    \/ get_and_write_over_under_projection_all_weeks
    \/ get_and_write_percentage_of_points_per_position
    \/ get_and_write_percentage_of_points_per_position_all_weeks
    \/ run_analysis_next

Spec == Init /\ [][Next]_vars

----------------------------------------------------------------------------
(* The same operations on a provider that names the unknown team in a     *)
(* matchup of a week queried (specification SpecUnknown); run_analysis    *)
(* makes no further call after one of them has raised                     *)

unknown_team_call ==
    /\ pc = "idle"
    /\ \/ \E week \in 1..MaxWeeks, box_scores \in InconsistentBoxes :
            team_names_call(week, box_scores)
       \/ \E week \in 1..MaxWeeks, section \in AverageSections,
             data \in InconsistentData(1) :
            average_call(week, section, data)
       \/ \E weeks \in 1..MaxWeeks, section \in AverageSections :
            \E data \in InconsistentData(weeks) :
                average_all_weeks_call(weeks, section, data)
       \/ \E week \in 1..MaxWeeks, box_scores \in InconsistentBoxes :
            \E power_rankings \in ProviderRankings(box_scores) :
                power_ranking_call(week, box_scores, power_rankings)
       \/ \E weeks \in 1..MaxWeeks :
            \E data \in InconsistentData(weeks) :
                \E rankings \in RankingsOfWeeks(data, weeks) :
                    power_ranking_all_weeks_call(weeks, data, rankings)
       \/ \E week \in 1..MaxWeeks, data \in InconsistentData(1) :
            over_under_call(week, data)
       \/ \E weeks \in 1..MaxWeeks :
            \E data \in InconsistentData(weeks) :
                over_under_all_weeks_call(weeks, data)
       \/ \E week \in 1..MaxWeeks, section \in PercentageSections,
             data \in InconsistentData(1) :
            percentage_call(week, section, data)
       \/ \E weeks \in 1..MaxWeeks, section \in PercentageSections :
            \E data \in InconsistentData(weeks) :
                percentage_all_weeks_call(weeks, section, data)

SpecUnknown == Init /\ [][unknown_team_call]_vars

----------------------------------------------------------------------------
(* The methods of FantasyFootballLeague and the cell addressing on their   *)
(* own (specification SpecLeague): a caller applies one of them to what    *)
(* the provider returned and looks at the result.                          *)

MaxColumn == 27

(* lineups over three positions: a 2:1 split; three equal thirds; only     *)
(* scoreless players; nobody; points that cancel out; a QB without a       *)
(* points record and a benched WR; no QB at all; a negative total          *)
TableLineups ==
    { << Player("QB", "QB", 2), Player("WR", "WR", 1) >>,
      << Player("QB", "QB", 1), Player("WR", "WR", 1), Player("RB", "RB", 1) >>,
      << Player("QB", "QB", 0), Player("WR", "BE", 0) >>,
      << >>,
      << Player("QB", "QB", 2), Player("WR", "WR", -2) >>,
      << PlayerNoStats("QB", "QB"), Player("WR", "BE", 3) >>,
      << Player("WR", "WR", 1), Player("WR", "BE", 2) >>,
      << Player("QB", "QB", -3), Player("WR", "WR", 1) >> }

(* one matchup of the first two teams of the league, any lineups *)
TableBoxes ==
    { << Matchup(Side(league_teams[1], h, 10050, 10000),
                 Side(league_teams[2], a, 10050, 10000)) >> :
        h \in TableLineups, a \in TableLineups }

PositionLists == { <<"QB", "WR", "RB">>, <<"QB", "WR">>, <<"WR", "QB">>, <<"RB">> }
SlotConditionLists == { <<>>, <<"BE">> }

LeagueCall(op, result) ==
    /\ pc = "idle"
    /\ run' = [op |-> op] @@ result
    /\ pc' = "returned"
    /\ UNCHANGED <<batch_data, service_calls, stage_log, last_call>>

call_get_teams_data ==
    /\ pc = "idle"
    /\ \/ \E data \in [1..MaxWeeks -> RankingBoxes] :
            LeagueCall("get_teams_data",
                       [data |-> data,
                        result |-> [w \in 1..MaxWeeks |-> get_teams_data(data[w])]])
       \/ \E box_scores \in InconsistentBoxes :
            LeagueCall("get_teams_data",
                       [data |-> <<box_scores>>,
                        result |-> <<get_teams_data(box_scores)>>])

call_average_points_per_player ==
    /\ pc = "idle"
    /\ \E box_scores \in TableBoxes, positions \in PositionLists,
          slot_conditions \in SlotConditionLists :
            LeagueCall("average_points_per_player",
                       [box_scores |-> box_scores, positions |-> positions,
                        slot_conditions |-> slot_conditions,
                        result |-> average_points_per_player(box_scores, positions,
                                                             slot_conditions)])

call_percentage_of_points_by_position ==
    /\ pc = "idle"
    /\ \E box_scores \in TableBoxes, positions \in PositionLists,
          slot_conditions \in SlotConditionLists :
            LeagueCall("percentage_of_points_by_position",
                       [box_scores |-> box_scores, positions |-> positions,
                        slot_conditions |-> slot_conditions,
                        result |-> percentage_of_points_by_position(box_scores, positions,
                                                                    slot_conditions)])

(* f"{chr(ord('A') + column)}{index_row}" for a column offset *)
format_cell_range ==
    /\ pc = "idle"
    /\ \E column \in 0..MaxColumn, index_row \in {1, power_ranking_row} :
            LeagueCall("cell_range",
                       [column |-> column, index_row |-> index_row,
                        cell_range |-> cell(column, index_row)])

NextLeague ==
    \/ call_get_teams_data
    \/ call_average_points_per_player
    \/ call_percentage_of_points_by_position
    \/ format_cell_range
    \/ run_analysis_next

SpecLeague == Init /\ [][NextLeague]_vars

----------------------------------------------------------------------------
(* Properties of the batch coordinator (specification SpecBatch) *)

(* The stage calls made before the k-th flush and after the one before it *)
StagedBeforeFlush(k) ==
    LET from == IF k = 1 THEN 0 ELSE service_calls[k - 1].upto
    IN  (from + 1)..service_calls[k].upto

ExpectedItem(st) ==
    [range |-> <<st.sheet_name, st.cell_range>>, values |-> << <<st.value>> >>, id |-> st.id]

(* C1: the bulk-write call of a flush holds exactly the writes staged since *)
(* the previous flush: each of them, under whatever tag, exactly once, and  *)
(* nothing else.                                                            *)
C1_FlushSendsExactlyStaged ==
    \A k \in 1..Len(service_calls) :
        LET data == service_calls[k].data
        IN  /\ Len(data) = Cardinality(StagedBeforeFlush(k))
            /\ \A j \in StagedBeforeFlush(k) :
                  Cardinality({p \in 1..Len(data) : data[p] = ExpectedItem(stage_log[j])}) = 1

(* A flush that sent writes staged under two different tags *)
C1_Witness ==
    \E k \in 1..Len(service_calls) :
        \E i, j \in StagedBeforeFlush(k) :
            /\ stage_log[i].function_name # stage_log[j].function_name
            /\ Len(service_calls[k].data) >= 2

IdsSent(k) == {service_calls[k].data[p].id : p \in 1..Len(service_calls[k].data)}

(* C2: at-most-once delivery: the pending map is empty after every flush,   *)
(* whether or not the sink call failed, and no staged write is part of more *)
(* than one bulk-write call.                                                *)
C2_AtMostOnce ==
    /\ last_call.method = "write_batch" => batch_data = <<>>
    /\ \A k1, k2 \in 1..Len(service_calls) : k1 # k2 => IdsSent(k1) \cap IdsSent(k2) = {}
    /\ \A k \in 1..Len(service_calls) :
          Cardinality(IdsSent(k)) = Len(service_calls[k].data)

(* A flush of staged writes failed and a later flush followed it *)
C2_Witness ==
    /\ Len(service_calls) >= 2
    /\ service_calls[1].outcome # "ok"
    /\ service_calls[1].data # <<>>
    /\ last_call.method = "write_batch"

(* C3 (as claimed): a flush whose sink call failed ends differently from a  *)
(* flush whose sink call succeeded (another result, or a raised error).     *)
C3_SinkFailureReported ==
    (/\ last_call.method = "write_batch"
     /\ service_calls[Len(service_calls)].outcome # "ok")
        => last_call.result # SuccessReturn

(* C4 (as claimed): a flush made with nothing staged makes no sink call, so *)
(* every sink call was made by a flush with at least one staged write.      *)
C4_EmptyFlushIsNoOp ==
    \A k \in 1..Len(service_calls) : StagedBeforeFlush(k) # {}

EntriesOf(bd, fn) ==
    IF \E i \in 1..Len(bd) : bd[i].function_name = fn
    THEN bd[CHOOSE i \in 1..Len(bd) : bd[i].function_name = fn].data_list
    ELSE <<>>

IsStageStep ==
    /\ Len(stage_log') = Len(stage_log) + 1
    /\ last_call'.method \in {"add_data_to_batch", "write_to_sheet"}

(* C5: a stage call never calls the sink; it appends its one entry at the   *)
(* end of the pending sequence of its own tag and leaves the entries of     *)
(* every other tag, and the earlier entries of its own tag, as they were.   *)
C5_StageOnlyAppends ==
    [][IsStageStep =>
        LET st == stage_log'[Len(stage_log')]
            entry == [sheet_name |-> st.sheet_name, cell_range |-> st.cell_range,
                      value |-> st.value, id |-> st.id]
        IN  /\ service_calls' = service_calls
            /\ EntriesOf(batch_data', st.function_name) =
                  Append(EntriesOf(batch_data, st.function_name), entry)
            /\ \A fn \in Tags \ {st.function_name} :
                  EntriesOf(batch_data', fn) = EntriesOf(batch_data, fn)
    ]_vars

(* A stage call has just added a second entry to a tag while another tag    *)
(* also has pending entries                                                 *)
C5_Witness ==
    /\ last_call.method \in {"add_data_to_batch", "write_to_sheet"}
    /\ \E fn \in Tags :
          /\ Len(EntriesOf(batch_data, fn)) >= 2
          /\ \E other \in Tags \ {fn} : Len(EntriesOf(batch_data, other)) >= 1

----------------------------------------------------------------------------
(* Properties of the report operations (specification Spec) *)

AllWeeksTableOps == {"average_all_weeks", "percentage_all_weeks"}
AllWeeksScalarOps == {"power_ranking_all_weeks", "over_under_all_weeks"}
AllWeeksOps == AllWeeksTableOps \cup AllWeeksScalarOps

(* the operation ran to its write_batch and the sink call did not raise *)
Completed == run.op # "none" /\ run.error = "none"

(* the 1-based place of a team in the league's canonical order *)
CanonicalIndex(team) == CHOOSE i \in 1..Len(league_teams) : league_teams[i] = team

(* the team of a week that has exactly i - 1 teams of that week before it  *)
(* in canonical order                                                      *)
SlotTeam(box_scores, i) ==
    CHOOSE t \in TeamsOfBox(box_scores) :
        Cardinality({u \in TeamsOfBox(box_scores) :
                        CanonicalIndex(u) < CanonicalIndex(t)}) = i - 1

TeamCount(box_scores) == Cardinality(TeamsOfBox(box_scores))

(* the rows staged by the operation, and the entries of one row in the     *)
(* order they were staged: label, team cells, league average               *)
StagedRows == {stage_log[i].cell_range[2] : i \in 1..Len(stage_log)}
RowEntries(r) == SelectSeq(stage_log, LAMBDA e : e.cell_range[2] = r)
RowTeamEntries(r) ==
    LET es == RowEntries(r)
    IN  IF run.op = "team_names" THEN SubSeq(es, 1, Len(es) - 1)
        ELSE SubSeq(es, 2, Len(es) - 1)
RowLeagueEntry(r) == RowEntries(r)[Len(RowEntries(r))]

(* the column offset from A of a cell reference *)
ColumnOf(cell_range) == (CHOOSE c \in 1..Len(Chars) : Chars[c] = cell_range[1]) - 1

(* C6 (as claimed): when a week's table of a team differs in length from   *)
(* the team's running total, the multi-week operation ends with an error   *)
(* and writes nothing of the section.                                      *)
C6_ShapeMismatchSurfaced ==
    (run.op \in AllWeeksTableOps /\ run.skipped # {})
        => (run.error # "none" /\ service_calls = <<>>)

(* what the single-week transform yields for the teams of a week, in       *)
(* column_index order: the value of position k (tables), or the scalar     *)
SingleWeekValue(op, box_scores, power_rankings, section, i, k) ==
    LET team == SlotTeam(box_scores, i)
        pick(got, getter(_)) ==
            LET td == got.teams_data[CHOOSE j \in 1..Len(got.teams_data) :
                                        got.teams_data[j].team = team]
            IN  getter(td)
        table_value(table) ==
            IF table.none \/ k > Len(table.v) THEN None ELSE Some(table.v[k][2])
    IN  CASE op = "average_all_weeks" ->
                pick(average_points_per_player(box_scores, positions_to_check,
                                               section.positions_to_omit),
                     LAMBDA td : table_value(td.average_per_overall))
          [] op = "percentage_all_weeks" ->
                pick(percentage_of_points_by_position(box_scores, positions_to_check,
                                                      section.positions_to_omit),
                     LAMBDA td : table_value(td.percentage_per_position))
          [] op = "power_ranking_all_weeks" ->
                pick(power_ranking_per_player(box_scores, power_rankings),
                     LAMBDA td : IF td.power_ranking.none THEN None
                                 ELSE Some(Hundredths(td.power_ranking.v)))
          [] OTHER ->
                pick(get_teams_data(box_scores),
                     LAMBDA td : Some(round2(RSub(Hundredths(td.score),
                                                  Hundredths(td.projected)))))

RowsOf(op, section) ==
    IF op \in AllWeeksTableOps
    THEN [k \in 1..Len(positions_to_check) |-> section.start_position + k - 1]
    ELSE IF op = "power_ranking_all_weeks" THEN <<power_ranking_row>>
    ELSE <<over_under_row>>

(* C7 (as claimed): a multi-week operation over a range of one week        *)
(* completes, and stages for every team and every row the value of the     *)
(* single-week transform for that week.                                    *)
C7_OneWeekIsSingleWeek ==
    (run.op \in AllWeeksOps /\ run.weeks = 1)
        => /\ run.error \in {"none", "OtherError"}
           /\ \A k \in 1..Len(RowsOf(run.op, run.section)) :
                 LET cells == RowTeamEntries(RowsOf(run.op, run.section)[k])
                 IN  /\ Len(cells) = TeamCount(run.data[1])
                     /\ \A i \in 1..Len(cells) :
                           Some(cells[i].value) =
                               SingleWeekValue(run.op, run.data[1], run.rankings[1],
                                               run.section, i, k)

(* C8 (as claimed): in a multi-week operation slot i holds the same team   *)
(* in every week, and the value of slot i is written to the column whose   *)
(* offset is that team's column_index.                                     *)
C8_ZippedByColumnIndex ==
    (run.op \in AllWeeksOps /\ Completed)
        => /\ \A w1, w2 \in 1..run.weeks :
                 \A i \in 1..TeamCount(run.data[w1]) :
                     i <= TeamCount(run.data[w2])
                         => SlotTeam(run.data[w1], i) = SlotTeam(run.data[w2], i)
           /\ \A r \in StagedRows :
                 \A i \in 1..Len(RowTeamEntries(r)) :
                     i <= TeamCount(run.data[1])
                         => ColumnOf(RowTeamEntries(r)[i].cell_range) =
                                CanonicalIndex(SlotTeam(run.data[1], i))

(* C9 (as claimed): in every metric row the league-average value is        *)
(* round(mean of the team values staged in that row, 2).                   *)
C9_LeagueAverageIsRoundedMean ==
    (Completed /\ run.op # "team_names")
        => \A r \in StagedRows :
              LET cells == RowTeamEntries(r)
              IN  cells # <<>> =>
                    RowLeagueEntry(r).value =
                        round2(RDiv(RSum([i \in 1..Len(cells) |-> cells[i].value]),
                                    Len(cells)))

(* C10 (as claimed): in every row the league average is staged in the      *)
(* column after the highest team column of the row, so in no team's cell.  *)
C10_LeagueColumnAfterTeams ==
    Completed
        => \A r \in StagedRows :
              LET cells == RowTeamEntries(r)
              IN  /\ \A i \in 1..Len(cells) :
                        ColumnOf(RowLeagueEntry(r).cell_range) >
                            ColumnOf(cells[i].cell_range)
                  /\ \E i \in 1..Len(cells) :
                        ColumnOf(RowLeagueEntry(r).cell_range) =
                            ColumnOf(cells[i].cell_range) + 1

----------------------------------------------------------------------------
(* Properties of the league's methods (specification SpecLeague) *)

TableOps == {"average_points_per_player", "percentage_of_points_by_position"}

(* the (position, value) pairs a getter gives, none for None *)
TableRows(table) == IF table.none THEN <<>> ELSE table.v

MetricTable(team_data) ==
    IF run.op = "average_points_per_player"
    THEN TableRows(team_data.average_per_overall)
    ELSE TableRows(team_data.percentage_per_position)

ListedPositions(rows) == [k \in 1..Len(rows) |-> rows[k][1]]

(* the players of a lineup that a position's average counts *)
Qualifying(lineup, position, slot_conditions) ==
    {k \in 1..Len(lineup) :
        /\ lineup[k].position = position
        /\ ~(\E c \in 1..Len(slot_conditions) :
                slot_conditions[c] = lineup[k].slot_position)}

(* the week's points of the players in non-excluded slots *)
RECURSIVE TotalPoints(_, _)
TotalPoints(lineup, slot_conditions) ==
    IF lineup = <<>> THEN 0
    ELSE (IF /\ Head(lineup).stats.has_points
             /\ \A c \in 1..Len(slot_conditions) :
                    slot_conditions[c] # Head(lineup).slot_position
          THEN Head(lineup).stats.points ELSE 0)
         + TotalPoints(Tail(lineup), slot_conditions)

(* C11 (as claimed): after either table method returns, all teams' tables  *)
(* have the same length, and each lists its positions in the order they    *)
(* were requested.                                                         *)
C11_TablesSameShape ==
    (run.op \in TableOps /\ run.result.error = "none")
        => LET teams_data == run.result.teams_data
           IN  /\ \A i, j \in 1..Len(teams_data) :
                     Len(MetricTable(teams_data[i])) = Len(MetricTable(teams_data[j]))
               /\ \A i \in 1..Len(teams_data) :
                     LET listed == ListedPositions(MetricTable(teams_data[i]))
                     IN  listed = SelectSeq(run.positions,
                                            LAMBDA p : p \in Range(listed))

(* C12: in average_points_per_player a requested position has no entry in  *)
(* the table of a team without a lineup entry of that position in a        *)
(* non-excluded slot, and exactly one entry in the table of a team that    *)
(* has one.                                                                *)
C12_AbsentNotZero ==
    run.op = "average_points_per_player"
        => /\ run.result.error = "none"
           /\ \A i \in 1..Len(run.result.teams_data) :
                 LET team_data == run.result.teams_data[i]
                     rows == TableRows(team_data.average_per_overall)
                 IN  \A p \in Range(run.positions) :
                        Cardinality({k \in 1..Len(rows) : rows[k][1] = p}) =
                            IF Qualifying(team_data.lineup, p, run.slot_conditions) = {}
                            THEN 0 ELSE 1

(* A team has an entry for one requested position and none for another *)
C12_Witness ==
    /\ run.op = "average_points_per_player"
    /\ \E i \in 1..Len(run.result.teams_data) :
          LET team_data == run.result.teams_data[i]
          IN  /\ \E p \in Range(run.positions) :
                    Qualifying(team_data.lineup, p, run.slot_conditions) = {}
              /\ \E p \in Range(run.positions) :
                    Qualifying(team_data.lineup, p, run.slot_conditions) # {}
              /\ TableRows(team_data.average_per_overall) # <<>>

(* C16: in percentage_of_points_by_position a team whose points in the    *)
(* non-excluded slots add up to zero gets 0 for every requested position,  *)
(* and the method returns normally.                                        *)
C16_ZeroTotalGivesZero ==
    run.op = "percentage_of_points_by_position"
        => /\ run.result.error = "none"
           /\ \A i \in 1..Len(run.result.teams_data) :
                 LET team_data == run.result.teams_data[i]
                 IN  TotalPoints(team_data.lineup, run.slot_conditions) = 0
                        => TableRows(team_data.percentage_per_position) =
                               [k \in 1..Len(run.positions) |-> <<run.positions[k], Zero>>]

(* A team's total is zero although one of its players scored *)
C16_Witness ==
    /\ run.op = "percentage_of_points_by_position"
    /\ \E i \in 1..Len(run.result.teams_data) :
          LET team_data == run.result.teams_data[i]
          IN  /\ TotalPoints(team_data.lineup, run.slot_conditions) = 0
              /\ \E k \in 1..Len(team_data.lineup) :
                    team_data.lineup[k].stats.points # 0

(* the requested positions cover every position of the lineup *)
Covers(positions, lineup) ==
    \A k \in 1..Len(lineup) : lineup[k].position \in Range(positions)

(* the percentages of a table add up to 100 within 0.1 *)
SumsTo100(rows) ==
    LET total == RSum([k \in 1..Len(rows) |-> rows[k][2]])
    IN  /\ total.d = 1
        /\ total.n >= 9990
        /\ total.n <= 10010

NoNegativePoints(lineup) ==
    \A k \in 1..Len(lineup) : lineup[k].stats.points >= 0

SnapshotsOf(results) ==
    UNION { {<<w, results[w].teams_data[i]>> : i \in 1..Len(results[w].teams_data)} :
            w \in DOMAIN results }

(* C13: the index_column of every TeamData that get_teams_data returns is  *)
(* the 1-based place of its team in league.teams, so a team has the same   *)
(* index_column in every week, wherever the provider lists it.             *)
C13_ColumnIsCanonicalPlace ==
    run.op = "get_teams_data"
        => /\ \A s \in SnapshotsOf(run.result) :
                 /\ s[2].index_column \in 1..Len(league_teams)
                 /\ league_teams[s[2].index_column] = s[2].team
           /\ \A s, t \in SnapshotsOf(run.result) :
                 s[2].team = t[2].team => s[2].index_column = t[2].index_column

(* A team is the home side of one week and the away side of another,      *)
(* against a different opponent                                           *)
C13_Witness ==
    /\ run.op = "get_teams_data"
    /\ \E w1, w2 \in DOMAIN run.data :
          /\ run.result[w1].error = "none" /\ run.result[w2].error = "none"
          /\ run.data[w1][1].home_team = run.data[w2][1].away_team
          /\ run.data[w1][1].away_team # run.data[w2][1].home_team

(* the column letters of a sheet with single-letter columns *)
ColumnLetters == {chr(code) : code \in ord_A..(ord_A + 25)}

(* C18 (as claimed): cell addressing gives column B for column 1 and       *)
(* column Z for column 25, and no cell reference it produces, whatever the *)
(* column asked for, has a column that is not one of the letters A..Z.     *)
C18_ColumnIsALetter ==
    run.op = "cell_range"
        => /\ (run.column = 1 => run.cell_range[1] = "B")
           /\ (run.column = 25 => run.cell_range[1] = "Z")
           /\ run.cell_range[1] \in ColumnLetters

----------------------------------------------------------------------------
(* Properties of the report operations under an inconsistent provider      *)
(* (specification SpecUnknown for C14, Spec for C15)                       *)

(* every team of every matchup of the weeks queried is in league.teams *)
ProviderConsistent ==
    \A w \in 1..run.weeks : TeamsOfBox(run.data[w]) \subseteq Range(league_teams)

(* the first week queried whose matchups name a team outside league.teams *)
FirstUnknownWeek ==
    CHOOSE w \in 1..run.weeks :
        /\ ~(TeamsOfBox(run.data[w]) \subseteq Range(league_teams))
        /\ \A v \in 1..(w - 1) : TeamsOfBox(run.data[v]) \subseteq Range(league_teams)

(* C14: when a matchup of a week queried names a team that is not in       *)
(* league.teams, the report operation ends with an error: it has staged    *)
(* nothing, nothing is pending and the sink was not called.  The error is  *)
(* the ValueError of get_teams_data whenever that week is fetched, which   *)
(* it is when it is the first or the second week queried (a multi-week     *)
(* operation combines a week with the earlier ones only after fetching it).*)
C14_UnknownTeamAborts ==
    (run.op # "none" /\ ~ProviderConsistent)
        => /\ run.error # "none"
           /\ (FirstUnknownWeek <= 2 => run.error = "ValueError")
           /\ pc = "raised"
           /\ stage_log = <<>>
           /\ batch_data = <<>>
           /\ service_calls = <<>>

(* A multi-week operation got a consistent first week and met the unknown  *)
(* team in the second                                                      *)
C14_Witness ==
    /\ run.op \in AllWeeksOps
    /\ run.weeks = 2
    /\ TeamsOfBox(run.data[1]) \subseteq Range(league_teams)
    /\ UnknownTeam \in TeamsOfBox(run.data[2])
    /\ run.error = "ValueError"

(* the rankings of a week that name a team without a matchup in the week *)
StrangerRankings(w) ==
    {k \in 1..Len(run.rankings[w]) : run.rankings[w][k][2] \notin TeamsOfBox(run.data[w])}

(* C15 (as claimed): when the power rankings of a week rank a team that no *)
(* TeamData of the week belongs to, the power-ranking operation ends with  *)
(* an error and sends nothing to the sink.                                 *)
C15_UnknownRankingAborts ==
    (/\ run.op \in {"power_ranking", "power_ranking_all_weeks"}
     /\ \E w \in 1..run.weeks : StrangerRankings(w) # {})
        => /\ run.error # "none"
           /\ service_calls = <<>>

----------------------------------------------------------------------------
(* Properties of the average-points rows (specification Spec) *)

AverageOps == {"average", "average_all_weeks"}

(* the same teams play in every week queried *)
SameTeamsEveryWeek ==
    \A w \in 1..run.weeks : TeamsOfBox(run.data[w]) = TeamsOfBox(run.data[1])

(* the lineup of a team in a week *)
LineupOf(box_scores, team) ==
    LET sides == matchup_sides(box_scores)
    IN  sides[CHOOSE j \in 1..Len(sides) : sides[j].team = team].lineup

(* the team whose value the i-th team cell of a row holds: the i-th of the *)
(* week's list (single-week), the i-th in column_index order (multi-week)  *)
CellTeam(i) ==
    IF run.op \in AllWeeksOps THEN SlotTeam(run.data[1], i)
    ELSE matchup_sides(run.data[1])[i].team

(* the team cells staged in a row, whether or not the row was completed *)
StagedTeamCells(r) ==
    LET es == RowEntries(r)
        last == IF Len(es) - 1 < TeamCount(run.data[1]) THEN Len(es) - 1
                ELSE TeamCount(run.data[1])
    IN  SubSeq(es, 2, 1 + last)

(* a team's average for one position in a week: None when nobody of the    *)
(* team counts for the position                                            *)
PositionAverage(team, position, w) ==
    LET table == average_table(LineupOf(run.data[w], team), <<position>>,
                               run.section.positions_to_omit)
    IN  IF table.none THEN None ELSE Some(table.v[1][2])

(* C19 (as claimed): an average-points operation never reads past the end  *)
(* of a team's table, and the value it stages for a team in the row of a   *)
(* position is the team's average for that position (over the weeks        *)
(* queried), which the team therefore has.                                 *)
C19_AverageRowsAligned ==
    (run.op \in AverageOps /\ SameTeamsEveryWeek)
        => /\ run.error \notin {"IndexError", "TypeError"}
           /\ \A k \in 1..Len(positions_to_check) :
                 LET cells == StagedTeamCells(run.section.start_position + k - 1)
                 IN  \A i \in 1..Len(cells) :
                       /\ \A w \in 1..run.weeks :
                             ~PositionAverage(CellTeam(i), positions_to_check[k], w).none
                       /\ cells[i].value =
                             round2(RDiv(RSum([w \in 1..run.weeks |->
                                                PositionAverage(CellTeam(i),
                                                                positions_to_check[k], w).v]),
                                         run.weeks))

----------------------------------------------------------------------------
(* Properties of the multi-week table operations (specification Spec) *)

(* the single-week value of the team in slot i for the k-th position, in   *)
(* week w of the run                                                       *)
WeekValue(i, k, w) ==
    SingleWeekValue(run.op, run.data[w], run.rankings[w], run.section, i, k)

(* the length of the table of the team in slot i in week w *)
TableLength(i, w) ==
    Cardinality({k \in 1..Len(positions_to_check) : ~WeekValue(i, k, w).none})

(* every team has a table in every week, of the same length every week *)
SameTableLengthEveryWeek ==
    \A i \in 1..TeamCount(run.data[1]) :
        /\ TableLength(i, 1) >= 1
        /\ \A w \in 1..run.weeks : TableLength(i, w) = TableLength(i, 1)

(* C20 (as claimed): over two or more weeks with the same teams and, for   *)
(* every team, tables of one length, a multi-week table operation stages   *)
(* for every team and every position the team has a value for the value    *)
(* round((sum of the team's single-week values) / weeks, 2).               *)
C20_MultiWeekIsRoundedMean ==
    (/\ run.op \in AllWeeksTableOps
     /\ run.weeks >= 2
     /\ SameTeamsEveryWeek
     /\ SameTableLengthEveryWeek)
        => \A i \in 1..TeamCount(run.data[1]) :
              \A k \in 1..Len(positions_to_check) :
                 (\A w \in 1..run.weeks : ~WeekValue(i, k, w).none)
                     => LET cells == StagedTeamCells(run.section.start_position + k - 1)
                        IN  /\ i <= Len(cells)
                            /\ cells[i].value =
                                  round2(RDiv(RSum([w \in 1..run.weeks |->
                                                     WeekValue(i, k, w).v]),
                                              run.weeks))

----------------------------------------------------------------------------
(* Properties of the operations in sequence (specification Spec) *)

(* C21: a report operation that has returned made exactly one bulk-write   *)
(* call, after its last stage call, carrying each of its staged writes     *)
(* once and nothing else, and left nothing pending; so nothing is pending  *)
(* when run_analysis makes its next call, and no bulk call carries a write *)
(* staged by another operation.                                            *)
C21_OneBulkWritePerOperation ==
    /\ pc = "idle" => batch_data = <<>>
    /\ pc = "returned" =>
          /\ batch_data = <<>>
          /\ Len(service_calls) = 1
          /\ service_calls[1].upto = Len(stage_log)
          /\ Len(service_calls[1].data) = Len(stage_log)
          /\ \A j \in 1..Len(stage_log) :
                Cardinality({p \in 1..Len(service_calls[1].data) :
                    service_calls[1].data[p] = ExpectedItem(stage_log[j])}) = 1

(* An operation that staged a label and its cells returned although the   *)
(* sink refused its bulk call                                              *)
C21_Witness ==
    /\ pc = "returned"
    /\ run.op \in {"average", "over_under"}
    /\ service_calls[1].outcome = "HttpError"
    /\ Len(stage_log) >= 4

====
